---- MODULE Spec2Model ----
(***************************************************************************)
(* Model of OpenAIEloEvaluator (yival/evaluators/openai_elo_evaluator.py): *)
(* the pairwise tournament of evaluate_based_on_all_results and the Elo    *)
(* update it folds the judge's verdicts into.                              *)
(*                                                                         *)
(* Ratings and expected scores are Python floats in the source.  They are  *)
(* modelled in fixed point: a rating is an integer number of 1/RScale Elo  *)
(* points, a score or expected score an integer number of 1/F.  Every      *)
(* division rounds to the nearest unit, so identities that hold "within    *)
(* floating-point tolerance" in the source hold within a few units here.   *)
(***************************************************************************)
EXTENDS Integers, Sequences, FiniteSets, TLC

\* ------------------------------------------------------------------------
\* Bounds of the model
\* ------------------------------------------------------------------------
MaxGroups == 2      \* groups in experiment[0].group_experiment_results
MaxResults == 3     \* results in one group
MaxPairs == 2       \* pairs over all groups when the judge answers anything

\* calls of the evaluator on one list of experiments
MaxCalls == 2

\* ------------------------------------------------------------------------
\* Fixed-point arithmetic standing for Python's float arithmetic
\* ------------------------------------------------------------------------
K == 32
RScale == 100
F == 10000
Ln10F == 23026
ExpTerms == 14
\* a slip: the tournament starts from 1000, another customary Elo baseline
Baseline_Thousand == 1000 * RScale

Baseline == 1200 * RScale

Abs(a) == IF a < 0 THEN -a ELSE a

RoundDiv(a, b) == (2 * a + b) \div (2 * b)

RECURSIVE ExpSeries(_, _, _, _)
ExpSeries(x, n, term, acc) ==
    IF n > ExpTerms THEN acc
    ELSE LET t == RoundDiv(term * x, n * F)
         IN  ExpSeries(x, n + 1, t, acc + t)

\* 10 ** (d / 400), d in rating units, result in units of 1/F
Pow10(d) == ExpSeries(RoundDiv(d * Ln10F, 400 * RScale), 1, F, F)

expected_score(r1, r2) == RoundDiv(F * F, F + Pow10(r2 - r1))

\* a slip: the second player is credited with the first player's score
update_elo_SameScore(r1, r2, score1) ==
    LET e1 == expected_score(r1, r2)
        e2 == expected_score(r2, r1)
    IN  << r1 + RoundDiv(K * (score1 - e1) * RScale, F),
           r2 + RoundDiv(K * (score1 - e2) * RScale, F) >>

update_elo(r1, r2, score1) ==
    LET e1 == expected_score(r1, r2)
        e2 == expected_score(r2, r1)
    IN  << r1 + RoundDiv(K * (score1 - e1) * RScale, F),
           r2 + RoundDiv(K * ((F - score1) - e2) * RScale, F) >>

\* a slip: the two verdicts are taken for one another
Interp_Swapped(content) ==
    IF content = "A" THEN 0 ELSE IF content = "B" THEN F ELSE F \div 2

\* a slip: the verdict is compared without regard to case
Interp_Caseless(content) ==
    IF content \in { "A", "a" } THEN F
    ELSE IF content \in { "B", "b" } THEN 0 ELSE F \div 2

\* score = 1 if content == 'A' else 0 if content == 'B' else 0.5
Interp(content) ==
    IF content = "A" THEN F ELSE IF content = "B" THEN 0 ELSE F \div 2

\* ------------------------------------------------------------------------
\* Data of an experiment
\* ------------------------------------------------------------------------
Names == << "X", "Y", "Z" >>
NumNames == Len(Names)

\* what the judge may answer: the two verdicts, and a malformed answer
Tokens == { "A", "B", "a" }
Verdicts == { "A", "B" }

\* str(result.combination) for a combination {"name": n}
Str(combination) == "{'name': '" \o combination.name \o "'}"

RECURSIVE comb(_, _)
comb(n, k) ==
    IF k = 0 THEN 1
    ELSE IF n < k THEN 0
    ELSE comb(n - 1, k - 1) + comb(n - 1, k)

\* itertools.combinations(s, 2), in the order itertools yields the pairs
RECURSIVE Combinations2(_)
Combinations2(s) ==
    IF Len(s) < 2 THEN << >>
    ELSE [j \in 1 .. (Len(s) - 1) |-> << s[1], s[j + 1] >>]
         \o Combinations2(Tail(s))

RECURSIVE SumSeq(_)
SumSeq(s) == IF s = << >> THEN 0 ELSE Head(s) + SumSeq(Tail(s))

RECURSIVE Flatten(_)
Flatten(ss) == IF ss = << >> THEN << >> ELSE Head(ss) \o Flatten(Tail(ss))

\* ------------------------------------------------------------------------
\* The experiments the evaluator is called with
\* ------------------------------------------------------------------------
\* An ExperimentResult: its combination and the text it produced.  The text
\* of the p-th result of the g-th group is the token <<g, p>>.
ExperimentResult(g, p, n) ==
    [combination |-> [name |-> Names[n]], raw_output |-> << g, p >>]

\* group_key as the regular expression of the request builder sees it:
\* whether it holds a "content: {...}" field, and the braces it holds.
GroupKey(g) ==
    [has_content |-> (g % 2 = 1), content |-> "{" \o ToString(g) \o "}"]

GroupedExperimentResult(g, ns) ==
    [group_key |-> GroupKey(g),
     experiment_results |-> [p \in 1 .. Len(ns) |-> ExperimentResult(g, p, ns[p])]]

\* evaluator_outputs of a record before the call: None, an empty list, or a
\* list holding an earlier evaluator's output.
PriorOutputs(i) ==
    IF i % 3 = 1 THEN [is_none |-> TRUE, items |-> << >>]
    ELSE IF i % 3 = 2 THEN [is_none |-> FALSE, items |-> << >>]
    ELSE [is_none |-> FALSE,
          items |-> << [name |-> "prior_evaluator", result |-> 0] >>]

CombinationAggregatedMetrics(i) ==
    [combo_key |-> Str([name |-> Names[i]]), evaluator_outputs |-> PriorOutputs(i)]

\* The treatments of the results of a group: the first n treatments in
\* listing order, the last n in reverse listing order, or the first treatment
\* twice.
InOrder(n) == [p \in 1 .. n |-> ((p - 1) % NumNames) + 1]

Reversed(n) == [p \in 1 .. n |-> NumNames - ((p - 1) % NumNames)]

NameSeqs ==
    { Reversed(n) : n \in 0 .. MaxResults }
    \cup { InOrder(n) : n \in 2 .. MaxResults }
    \cup { << 1, 1 >> }

GroupNameLists == UNION { [1 .. m -> NameSeqs] : m \in 0 .. MaxGroups }

PairCount(nss) == SumSeq([g \in 1 .. Len(nss) |-> comb(Len(nss[g]), 2)])

Experiment(nss, nc) ==
    [group_experiment_results |->
        [g \in 1 .. Len(nss) |-> GroupedExperimentResult(g, nss[g])],
     combination_aggregated_metrics |->
        [i \in 1 .. nc |-> CombinationAggregatedMetrics(i)]]

\* experiments of at most maxPairs pairs, of which all treatments or all but
\* the last are listed in combination_aggregated_metrics
Experiments(maxPairs) ==
    { Experiment(nss, nc) :
        nss \in { x \in GroupNameLists : PairCount(x) <= maxPairs },
        nc \in (NumNames - 1) .. NumNames }

\* the lists the evaluator is called with: one experiment, none, or two
ExperimentLists(maxPairs) ==
    { << e >> : e \in Experiments(maxPairs) }
    \cup { << >> }
    \cup { << e, e >> : e \in { Experiment(<< << 1, 2 >> >>, NumNames) } }

\* ------------------------------------------------------------------------
\* State
\* ------------------------------------------------------------------------
VARIABLES
    pc,               \* where evaluate_based_on_all_results stands
    experiment,       \* the argument: a list of experiments (metrics mutable)
    experiment0,      \* the argument as it was when the call was entered
    prompt_ratings,   \* dict combo_key -> rating
    total_rounds,     \* 2 * sum of comb(len(results), 2)
    message_batches,  \* the requests built so far
    group,            \* number of groups whose requests have been built
    responses,        \* verdict strings returned by parallel_completions
    idx,              \* index of the next response to read (0-based)
    rounds,           \* iterations of the fold loop entered (pbar.update())
    score1,           \* outcome read from the A-order response
    score2,           \* outcome read from the B-order response
    windex,           \* records written back so far
    error,            \* exception that ended the call, "" if none
    history           \* the calls made before this one, as they ended

vars == << pc, experiment, experiment0, prompt_ratings, total_rounds,
           message_batches, group, responses, idx, rounds, score1, score2,
           windex, error, history >>

NoScore == -1

Groups == experiment[1].group_experiment_results

Combos == experiment[1].combination_aggregated_metrics

\* the (result1, result2) pairs in the order the two nested loops visit them
PairsOf(groups) ==
    Flatten([g \in 1 .. Len(groups) |->
                Combinations2(groups[g].experiment_results)])

\* test_case: group 1 of the regular expression if it matches, else ""
TestCase(group_key) ==
    IF group_key.has_content THEN group_key.content ELSE ""

\* the user message of one request (the system message is constant)
Message(test_case, resultA, resultB) ==
    [prompt |-> test_case,
     generation_a |-> resultA.raw_output,
     generation_b |-> resultB.raw_output]

\* a slip: message2 is built in the same order as message1
GroupMessages_SameOrder(g) ==
    LET pairs == Combinations2(g.experiment_results)
        tc == TestCase(g.group_key)
    IN  Flatten([k \in 1 .. Len(pairs) |->
                    << Message(tc, pairs[k][1], pairs[k][2]),
                       Message(tc, pairs[k][1], pairs[k][2]) >>])

\* message1, message2 of every pair of one group, in emission order
GroupMessages(g) ==
    LET pairs == Combinations2(g.experiment_results)
        tc == TestCase(g.group_key)
    IN  Flatten([k \in 1 .. Len(pairs) |->
                    << Message(tc, pairs[k][1], pairs[k][2]),
                       Message(tc, pairs[k][2], pairs[k][1]) >>])

InitWith(lists) ==
    /\ experiment \in lists
    /\ experiment0 = experiment
    /\ pc = "start"
    /\ prompt_ratings = << >>
    /\ total_rounds = 0
    /\ message_batches = << >>
    /\ group = 0
    /\ responses = << >>
    /\ idx = 0
    /\ rounds = 0
    /\ score1 = NoScore
    /\ score2 = NoScore
    /\ windex = 0
    /\ error = ""
    /\ history = << >>

\* the judge may answer anything: experiments of at most MaxPairs pairs
Init == InitWith(ExperimentLists(MaxPairs))

\* the judge answers "A" or "B": experiments of one more pair
InitVerdicts == InitWith(ExperimentLists(MaxPairs + 1))

\* ------------------------------------------------------------------------
\* evaluate_based_on_all_results, step by step
\* ------------------------------------------------------------------------
\* if len(experiment) != 1: return
ReturnEarly ==
    /\ pc = "start"
    /\ Len(experiment) # 1
    /\ pc' = "done"
    /\ UNCHANGED << experiment, experiment0, prompt_ratings, total_rounds,
                    message_batches, group, responses, idx, rounds, score1,
                    score2, windex, error, history >>

\* a slip: only the empty list is turned away, a longer list is evaluated
\* by its first experiment
Begin_AnyList ==
    /\ pc = "start"
    /\ Len(experiment) >= 1
    /\ prompt_ratings' =
          [k \in { Combos[i].combo_key : i \in 1 .. Len(Combos) } |-> Baseline]
    /\ total_rounds' =
          SumSeq([g \in 1 .. Len(Groups) |->
                     comb(Len(Groups[g].experiment_results), 2)]) * 2
    /\ pc' = "build"
    /\ UNCHANGED << experiment, experiment0, message_batches, group, responses,
                    idx, rounds, score1, score2, windex, error, history >>

\* a slip: a treatment that an earlier run has rated starts from the rating
\* that run wrote into its record
Begin_WarmStart ==
    /\ pc = "start"
    /\ Len(experiment) = 1
    /\ prompt_ratings' =
          [k \in { Combos[i].combo_key : i \in 1 .. Len(Combos) } |->
              LET i == CHOOSE j \in 1 .. Len(Combos) : Combos[j].combo_key = k
                  items == Combos[i].evaluator_outputs.items
              IN  IF items # << >>
                     /\ items[Len(items)].name = "openai_elo_evaluator"
                  THEN items[Len(items)].result
                  ELSE Baseline]
    /\ total_rounds' =
          SumSeq([g \in 1 .. Len(Groups) |->
                     comb(Len(Groups[g].experiment_results), 2)]) * 2
    /\ pc' = "build"
    /\ UNCHANGED << experiment, experiment0, message_batches, group, responses,
                    idx, rounds, score1, score2, windex, error, history >>

\* a slip: the missing output lists are created before the tournament is run
Begin_InitLists ==
    /\ pc = "start"
    /\ Len(experiment) = 1
    /\ prompt_ratings' =
          [k \in { Combos[i].combo_key : i \in 1 .. Len(Combos) } |-> Baseline]
    /\ total_rounds' =
          SumSeq([g \in 1 .. Len(Groups) |->
                     comb(Len(Groups[g].experiment_results), 2)]) * 2
    /\ experiment' =
          [experiment EXCEPT ![1].combination_aggregated_metrics =
              [i \in 1 .. Len(Combos) |->
                  [Combos[i] EXCEPT !.evaluator_outputs.is_none = FALSE]]]
    /\ pc' = "build"
    /\ UNCHANGED << experiment0, message_batches, group, responses, idx,
                    rounds, score1, score2, windex, error, history >>

\* prompt_ratings = {combo.combo_key: 1200 ...}; total_rounds = sum(...) * 2
Begin ==
    /\ pc = "start"
    /\ Len(experiment) = 1
    /\ prompt_ratings' =
          [k \in { Combos[i].combo_key : i \in 1 .. Len(Combos) } |-> Baseline]
    /\ total_rounds' =
          SumSeq([g \in 1 .. Len(Groups) |->
                     comb(Len(Groups[g].experiment_results), 2)]) * 2
    /\ pc' = "build"
    /\ UNCHANGED << experiment, experiment0, message_batches, group, responses,
                    idx, rounds, score1, score2, windex, error, history >>

\* one iteration of the request-building loop over the groups
BuildGroup ==
    /\ pc = "build"
    /\ group < Len(Groups)
    /\ message_batches' = message_batches \o GroupMessages(Groups[group + 1])
    /\ group' = group + 1
    /\ UNCHANGED << pc, experiment, experiment0, prompt_ratings, total_rounds,
                    responses, idx, rounds, score1, score2, windex, error,
                    history >>

\* responses = asyncio.run(parallel_completions(message_batches, ...)):
\* the dispatcher answers with a list of verdict strings
\* as many verdicts as there are requests, one fewer, or one more (what the
\* surplus verdict says is never read)
ResponseLists(n, tokens) ==
    UNION { [1 .. m -> tokens] : m \in { n } \cup (IF n > 0 THEN { n - 1 } ELSE { }) }
    \cup { Append(r, "A") : r \in [1 .. n -> tokens] }

DispatchOf(tokens) ==
    /\ pc = "build"
    /\ group = Len(Groups)
    /\ \E r \in ResponseLists(Len(message_batches), tokens) : responses' = r
    /\ idx' = 0
    /\ pc' = "fold"
    /\ UNCHANGED << experiment, experiment0, prompt_ratings, total_rounds,
                    message_batches, group, rounds, score1, score2, windex,
                    error, history >>

Dispatch == DispatchOf(Tokens)

DispatchVerdicts == DispatchOf(Verdicts)

\* parallel_completions raises: the exception leaves the function
DispatchFail ==
    /\ pc = "build"
    /\ group = Len(Groups)
    /\ pc' = "aborted"
    /\ error' = "DispatchError"
    /\ UNCHANGED << experiment, experiment0, prompt_ratings, total_rounds,
                    message_batches, group, responses, idx, rounds, score1,
                    score2, windex, history >>

\* the pair the next iteration of the fold loop works on
NextPair == PairsOf(Groups)[rounds + 1]

Key1 == Str(NextPair[1].combination)

Key2 == Str(NextPair[2].combination)

\* a slip: the first treatment gets its new rating, every other treatment of
\* the table the second one's
StoreRatings_Broadcast(ratings, k1, k2, r) ==
    [k \in DOMAIN ratings |-> IF k = k1 /\ k1 # k2 THEN r[1] ELSE r[2]]

\* prompt_ratings[k1], prompt_ratings[k2] = r1, r2 (k1 is stored first)
StoreRatings(ratings, k1, k2, r) ==
    [[ratings EXCEPT ![k1] = r[1]] EXCEPT ![k2] = r[2]]

\* a slip: every match is rated from the ratings the tournament started
\* with, and its gain and loss are added to the table
Folded_FromBaseline(ratings, k1, k2, s1, s2) ==
    LET r == update_elo(Baseline, Baseline, s1)
    IN  StoreRatings(ratings, k1, k2,
                     << ratings[k1] + (r[1] - Baseline),
                        ratings[k2] + (r[2] - Baseline) >>)

\* r1, r2 = ratings[k1], ratings[k2]; r1, r2 = update_elo(r1, r2, score1);
\* ratings[k1], ratings[k2] = r1, r2 (score2 has been read and is not used)
Folded(ratings, k1, k2, s1, s2) ==
    StoreRatings(ratings, k1, k2, update_elo(ratings[k1], ratings[k2], s1))

\* one whole iteration of the fold loop: both responses are read, then the
\* pair's ratings are updated
FoldPair ==
    /\ pc = "fold"
    /\ rounds < Len(PairsOf(Groups))
    /\ idx + 2 <= Len(responses)
    /\ Key1 \in DOMAIN prompt_ratings
    /\ Key2 \in DOMAIN prompt_ratings
    /\ rounds' = rounds + 1
    /\ score1' = Interp(responses[idx + 1])
    /\ score2' = Interp(responses[idx + 2])
    /\ idx' = idx + 2
    /\ prompt_ratings' = Folded(prompt_ratings, Key1, Key2, score1', score2')
    /\ UNCHANGED << pc, experiment, experiment0, total_rounds, message_batches,
                    group, responses, windex, error, history >>

\* responses[idx] raises IndexError, at the first or at the second read
FoldIndexError ==
    /\ pc = "fold"
    /\ rounds < Len(PairsOf(Groups))
    /\ idx + 2 > Len(responses)
    /\ rounds' = rounds + 1
    /\ IF idx + 1 <= Len(responses)
       THEN /\ score1' = Interp(responses[idx + 1])
            /\ idx' = idx + 1
       ELSE UNCHANGED << score1, idx >>
    /\ pc' = "aborted"
    /\ error' = "IndexError"
    /\ UNCHANGED << experiment, experiment0, prompt_ratings, total_rounds,
                    message_batches, group, responses, score2, windex,
                    history >>

\* a slip: a treatment the table lacks is entered at the baseline and the
\* fold goes on
FoldKeyError_Defaulting ==
    /\ pc = "fold"
    /\ rounds < Len(PairsOf(Groups))
    /\ idx + 2 <= Len(responses)
    /\ \/ Key1 \notin DOMAIN prompt_ratings
       \/ Key2 \notin DOMAIN prompt_ratings
    /\ rounds' = rounds + 1
    /\ score1' = Interp(responses[idx + 1])
    /\ score2' = Interp(responses[idx + 2])
    /\ idx' = idx + 2
    /\ prompt_ratings' =
          Folded([k \in DOMAIN prompt_ratings \cup { Key1, Key2 } |->
                     IF k \in DOMAIN prompt_ratings THEN prompt_ratings[k]
                     ELSE Baseline],
                 Key1, Key2, score1', score2')
    /\ UNCHANGED << pc, experiment, experiment0, total_rounds, message_batches,
                    group, responses, windex, error, history >>

\* prompt_ratings[formatted_combination] raises KeyError
FoldKeyError ==
    /\ pc = "fold"
    /\ rounds < Len(PairsOf(Groups))
    /\ idx + 2 <= Len(responses)
    /\ \/ Key1 \notin DOMAIN prompt_ratings
       \/ Key2 \notin DOMAIN prompt_ratings
    /\ rounds' = rounds + 1
    /\ score1' = Interp(responses[idx + 1])
    /\ score2' = Interp(responses[idx + 2])
    /\ idx' = idx + 2
    /\ pc' = "aborted"
    /\ error' = "KeyError"
    /\ UNCHANGED << experiment, experiment0, prompt_ratings, total_rounds,
                    message_batches, group, responses, windex, history >>

\* the fold loop is exhausted: pbar.close(), on to the write-back loop
FoldEnd ==
    /\ pc = "fold"
    /\ rounds = Len(PairsOf(Groups))
    /\ pc' = "writeback"
    /\ UNCHANGED << experiment, experiment0, prompt_ratings, total_rounds,
                    message_batches, group, responses, idx, rounds, score1,
                    score2, windex, error, history >>

EvaluatorOutput(name, result) == [name |-> name, result |-> result]

\* a slip: a record that holds an output of this evaluator gets it replaced
Appended_Upserting(combo, ratings) ==
    LET old == IF combo.evaluator_outputs.is_none THEN << >>
               ELSE combo.evaluator_outputs.items
        others == SelectSeq(old, LAMBDA o : o.name # "openai_elo_evaluator")
    IN  [combo EXCEPT !.evaluator_outputs =
            [is_none |-> FALSE,
             items |-> Append(others,
                              EvaluatorOutput("openai_elo_evaluator",
                                              ratings[combo.combo_key]))]]

\* a slip: the output list is replaced by the new output
Appended_Replacing(combo, ratings) ==
    [combo EXCEPT !.evaluator_outputs =
        [is_none |-> FALSE,
         items |-> << EvaluatorOutput("openai_elo_evaluator",
                                      ratings[combo.combo_key]) >>]]

\* if not combo.evaluator_outputs: ... = []; then append the new output
Appended(combo, ratings) ==
    [combo EXCEPT !.evaluator_outputs =
        [is_none |-> FALSE,
         items |->
            Append(IF combo.evaluator_outputs.is_none
                      \/ combo.evaluator_outputs.items = << >>
                   THEN << >>
                   ELSE combo.evaluator_outputs.items,
                   EvaluatorOutput("openai_elo_evaluator",
                                   ratings[combo.combo_key]))]]

\* the write-back loop over combination_aggregated_metrics, which cannot
\* raise, and the return that follows it
WriteBack ==
    /\ pc = "writeback"
    /\ experiment' =
          [experiment EXCEPT ![1].combination_aggregated_metrics =
              [i \in 1 .. Len(Combos) |-> Appended(Combos[i], prompt_ratings)]]
    /\ windex' = Len(Combos)
    /\ pc' = "done"
    /\ UNCHANGED << experiment0, prompt_ratings, total_rounds, message_batches,
                    group, responses, idx, rounds, score1, score2, error,
                    history >>

Steps ==
    \/ ReturnEarly
    \/ Begin
    \/ BuildGroup
    \/ DispatchFail
    \/ FoldPair
    \/ FoldIndexError
    \/ FoldKeyError
    \/ FoldEnd
    \/ WriteBack

Next == Dispatch \/ Steps

Spec == Init /\ [][Next]_vars

NextVerdicts == DispatchVerdicts \/ Steps

SpecVerdicts == InitVerdicts /\ [][NextVerdicts]_vars

\* The evaluator is called again on the same list once a call has ended:
\* the new call starts with no locals of its own, and the list it is handed
\* is the one the earlier calls left.  history keeps how each call ended.
CallRecord ==
    [pc |-> pc, error |-> error, experiment0 |-> experiment0,
     responses |-> responses, prompt_ratings |-> prompt_ratings]

Recall ==
    /\ pc \in { "done", "aborted" }
    /\ Len(history) + 1 < MaxCalls
    /\ history' = Append(history, CallRecord)
    /\ experiment0' = experiment
    /\ pc' = "start"
    /\ prompt_ratings' = << >>
    /\ total_rounds' = 0
    /\ message_batches' = << >>
    /\ group' = 0
    /\ responses' = << >>
    /\ idx' = 0
    /\ rounds' = 0
    /\ score1' = NoScore
    /\ score2' = NoScore
    /\ windex' = 0
    /\ error' = ""
    /\ UNCHANGED experiment

\* repeated calls, on experiments of at most one pair
InitRerun == InitWith(ExperimentLists(1))

NextRerun == DispatchVerdicts \/ Steps \/ Recall

SpecRerun == InitRerun /\ [][NextRerun]_vars

\* ------------------------------------------------------------------------
\* Vocabulary of the properties
\* ------------------------------------------------------------------------
OneExperiment == Len(experiment) = 1

Results(g) == Groups[g].experiment_results

Listed(result) == Str(result.combination) \in DOMAIN prompt_ratings

\* the ratings after a pair's two matches: the A-order match (k1 in slot A)
\* with outcome s1, then the B-order match (k2 in slot A) with outcome s2
BothMatches(ratings, k1, k2, s1, s2) ==
    LET first == StoreRatings(ratings, k1, k2,
                              update_elo(ratings[k1], ratings[k2], s1))
    IN  StoreRatings(first, k2, k1, update_elo(first[k2], first[k1], s2))

\* C1: every iteration of the fold loop folds the verdicts of both renderings
\* of its pair into the rating table, as two Elo matches one after the other.
C1_BothOrderingsFolded ==
    [][FoldPair =>
          prompt_ratings' =
              BothMatches(prompt_ratings, Key1, Key2, score1', score2')]_vars

\* two listed treatments in the only group, and a judge that always says "A"
TwoTreatmentsJudgeA ==
    /\ OneExperiment
    /\ Len(Groups) = 1
    /\ Len(Results(1)) = 2
    /\ Results(1)[1].combination # Results(1)[2].combination
    /\ responses = << "A", "A" >>

\* C2: two treatments in one group and a judge that always answers "A": when
\* the run is over both ratings are less than K/2 = 16 points from 1200.
C2_JudgeAlwaysACancels ==
    (pc = "done" /\ TwoTreatmentsJudgeA) =>
        \A k \in { Str(Results(1)[p].combination) : p \in 1 .. 2 } :
            Abs(prompt_ratings[k] - Baseline) < (K \div 2) * RScale

\* the change an iteration makes to the rating of the pair's first treatment
Change == prompt_ratings'[Key1] - prompt_ratings[Key1]

\* what the change would be had the first treatment won, or lost, both matches
ChangeIf(s1, s2) ==
    Folded(prompt_ratings, Key1, Key2, s1, s2)[Key1] - prompt_ratings[Key1]

\* C3: for a pair starting from equal ratings, the first treatment's rating
\* rises if it wins both matches ("A" then "B"), falls if it loses both ("B"
\* then "A"), and moves strictly less than in either case if it wins one match
\* and loses the other.
C3_PureAndMixedOutcomes ==
    [][(FoldPair /\ Key1 # Key2
                 /\ prompt_ratings[Key1] = prompt_ratings[Key2]) =>
          /\ (score1' = F /\ score2' = 0) => Change > 0
          /\ (score1' = 0 /\ score2' = F) => Change < 0
          /\ ((score1' = F /\ score2' = F) \/ (score1' = 0 /\ score2' = 0)) =>
                /\ Abs(Change) < Abs(ChangeIf(F, 0))
                /\ Abs(Change) < Abs(ChangeIf(0, F))]_vars

\* the dispatcher has answered
Answered ==
    \/ (OneExperiment /\ pc \in { "fold", "writeback", "done" })
    \/ (pc = "aborted" /\ error # "DispatchError")

Misaligned == Answered /\ Len(responses) # Len(message_batches)

\* C4: when the dispatcher returns fewer or more verdicts than requests, the
\* call ends in an error: no verdict is folded and no rating is written.
C4_MisalignedIsFatal ==
    Misaligned =>
        /\ pc \in { "fold", "aborted" }
        /\ \A k \in DOMAIN prompt_ratings : prompt_ratings[k] = Baseline
        /\ experiment = experiment0

\* C5: when the call ends in an error, raised by the dispatcher or during the
\* fold, every metrics record is what it was when the call was entered.
C5_AbortWritesNothing == pc = "aborted" => experiment = experiment0

\* an IndexError ends the fold after a pair has been folded
C5_Witness ==
    /\ pc = "aborted"
    /\ error = "IndexError"
    /\ Len(Combos) > 0
    /\ \E k \in DOMAIN prompt_ratings : prompt_ratings[k] # Baseline

\* the outputs a record held when the call was entered, None read as empty
OldItems(i) ==
    LET old == experiment0[1].combination_aggregated_metrics[i].evaluator_outputs
    IN  IF old.is_none THEN << >> ELSE old.items

\* C6: after a successful run on one experiment every record holds the outputs
\* it held before, in their order, followed by exactly one new output named
\* "openai_elo_evaluator" whose result is the final rating of its combo_key.
C6_OneOutputAppended ==
    (pc = "done" /\ OneExperiment) =>
        /\ Len(Combos) = Len(experiment0[1].combination_aggregated_metrics)
        /\ Groups = experiment0[1].group_experiment_results
        /\ \A i \in 1 .. Len(Combos) :
              /\ Combos[i].combo_key =
                    experiment0[1].combination_aggregated_metrics[i].combo_key
              /\ ~ Combos[i].evaluator_outputs.is_none
              /\ Combos[i].evaluator_outputs.items =
                    OldItems(i)
                    \o << [name |-> "openai_elo_evaluator",
                           result |-> prompt_ratings[Combos[i].combo_key]] >>

\* a finished run with a record of each kind: no list, empty list, prior output
C6_Witness ==
    /\ pc = "done"
    /\ OneExperiment
    /\ rounds > 0
    /\ \E i \in 1 .. Len(Combos) :
          experiment0[1].combination_aggregated_metrics[i].evaluator_outputs.is_none
    /\ \E i \in 1 .. Len(Combos) :
          Len(OldItems(i)) > 0 /\ Len(Combos[i].evaluator_outputs.items) = 2

\* the number of requests of the groups before group g
Offset(g) ==
    SumSeq([h \in 1 .. (g - 1) |-> Len(Results(h)) * (Len(Results(h)) - 1)])

\* the indices in message_batches of the requests of group g
Segment(g) == (Offset(g) + 1) .. Offset(g + 1)

\* C7: the requests of a group of n results are the n*(n-1) ordered pairs of
\* distinct results, each exactly once; a group of 0 or 1 results adds none
\* and raises nothing; in all there are 2 * sum of C(n,2) requests.
C7_RequestsAreOrderedPairs ==
    (OneExperiment /\ pc # "start") =>
        /\ Len(message_batches) = Offset(group + 1)
        /\ pc = "build" => error = ""
        /\ \A g \in 1 .. group :
              \A i, j \in 1 .. Len(Results(g)) :
                  i # j =>
                      Cardinality(
                          { m \in Segment(g) :
                              /\ message_batches[m].generation_a =
                                    Results(g)[i].raw_output
                              /\ message_batches[m].generation_b =
                                    Results(g)[j].raw_output }) = 1
        /\ group = Len(Groups) =>
              /\ Len(message_batches) = total_rounds
              /\ total_rounds =
                    2 * SumSeq([g \in 1 .. Len(Groups) |->
                        (Len(Results(g)) * (Len(Results(g)) - 1)) \div 2])

\* all requests are built for a group of three results and a group of one
C7_Witness ==
    /\ OneExperiment
    /\ pc = "build"
    /\ group = Len(Groups)
    /\ \E g \in 1 .. group : Len(Results(g)) = 3
    /\ \E g \in 1 .. group : Len(Results(g)) <= 1
    /\ Len(message_batches) = 6

\* the treatments in slot A and slot B of the m-th request
SlotA(m) ==
    LET pair == PairsOf(Groups)[(m + 1) \div 2]
    IN  Str((IF m % 2 = 1 THEN pair[1] ELSE pair[2]).combination)

SlotB(m) ==
    LET pair == PairsOf(Groups)[(m + 1) \div 2]
    IN  Str((IF m % 2 = 1 THEN pair[2] ELSE pair[1]).combination)

\* the ratings after the verdicts of requests m, m+1, ... are folded in turn
RECURSIVE Replay(_, _)
Replay(ratings, m) ==
    IF m > Len(message_batches) THEN ratings
    ELSE Replay(StoreRatings(ratings, SlotA(m), SlotB(m),
                             update_elo(ratings[SlotA(m)], ratings[SlotB(m)],
                                        Interp(responses[m]))),
                m + 1)

\* C8: the verdicts are folded in the order the requests were emitted, group
\* by group, pair by pair, A-order then B-order, each request's verdict being
\* the response at its index: the final ratings are those of that replay.
C8_FoldedInEmissionOrder ==
    (OneExperiment /\ pc \in { "writeback", "done" }
                   /\ Len(responses) = Len(message_batches)) =>
        prompt_ratings =
            Replay([k \in DOMAIN prompt_ratings |-> Baseline], 1)

\* the outcome s is what the verdict string says
Outcome(content, s) ==
    \/ (content = "A" /\ s = F)
    \/ (content = "B" /\ s = 0)
    \/ (content \notin { "A", "B" } /\ s = F \div 2)

\* some pair of the experiment has a result with an unlisted treatment
SomePairUnlisted ==
    \E k \in 1 .. Len(PairsOf(Groups)) :
        ~ Listed(PairsOf(Groups)[k][1]) \/ ~ Listed(PairsOf(Groups)[k][2])

\* C9: "A" is read as 1, "B" as 0 and any other verdict as 0.5, so both
\* outcomes of an iteration are in {1, 0, 0.5}; the fold raises only for a
\* missing response or an unlisted treatment, never for what a verdict says.
C9_VerdictInterpretationTotal ==
    /\ (OneExperiment /\ pc \in { "fold", "writeback", "done" } /\ rounds > 0) =>
          /\ Outcome(responses[2 * rounds - 1], score1)
          /\ Outcome(responses[2 * rounds], score2)
          /\ { score1, score2 } \subseteq { F, 0, F \div 2 }
    /\ (pc = "aborted" /\ error # "DispatchError") =>
          \/ Len(responses) < Len(message_batches)
          \/ SomePairUnlisted

\* a malformed verdict has been read as 0.5 and the fold goes on
C9_Witness ==
    /\ OneExperiment
    /\ pc = "fold"
    /\ rounds = 1
    /\ responses[1] = "a"
    /\ score1 = F \div 2
    /\ responses[2] = "B"
    /\ score2 = 0

\* rounding error of one match, in rating units (0.02 Elo points)
Tolerance == RScale \div 50

SumRatings ==
    SumSeq([i \in 1 .. Len(Combos) |-> prompt_ratings[Combos[i].combo_key]])

NoTreatmentTwice ==
    \A g \in 1 .. Len(Groups) :
        \A i, j \in 1 .. Len(Results(g)) :
            i # j => Results(g)[i].combination # Results(g)[j].combination

\* the sum of the ratings of the pair the iteration works on
PairSum(ratings) == ratings[Key1] + ratings[Key2]

\* a step of the fold loop that updated a pair's ratings (a FoldPair step)
Updated == pc = "fold" /\ pc' = "fold" /\ rounds' = rounds + 1

\* C10: every update_elo of the fold, whatever its outcome in {1, 0, 0.5},
\* keeps the sum of the pair's two ratings, and when no treatment appears
\* twice in a group the ratings of the table sum to 1200 times the number of
\* treatments after every match (both within the rounding tolerance).
C10_RatingMassConserved ==
    /\ [][(Updated /\ Key1 # Key2) =>
             /\ score1' \in { F, 0, F \div 2 }
             /\ Abs(PairSum(prompt_ratings') - PairSum(prompt_ratings))
                   <= Tolerance]_vars
    /\ []((OneExperiment /\ pc # "start" /\ NoTreatmentTwice) =>
             Abs(SumRatings - Baseline * Len(Combos)) <= Tolerance * rounds)

\* two matches have been folded and moved the ratings
C10_Witness ==
    /\ OneExperiment
    /\ pc = "done"
    /\ rounds = 2
    /\ NoTreatmentTwice
    /\ \E k \in DOMAIN prompt_ratings : prompt_ratings[k] > Baseline + (K \div 2) * RScale

\* ------------------------------------------------------------------------
\* C11: every treatment key of the listing starts at exactly 1200; a
\* treatment that takes part in no match keeps 1200 through the fold and is
\* written back with exactly 1200; a tournament without any pair raises
\* nothing of its own and writes 1200 into every record.
\* ------------------------------------------------------------------------
ListedKeys == { Combos[i].combo_key : i \in 1 .. Len(Combos) }

\* the keys of the treatments that are paired: those of the results of the
\* groups that hold at least two results
PairKeys ==
    UNION { { Str(Results(g)[p].combination) : p \in 1 .. Len(Results(g)) } :
            g \in { h \in 1 .. Len(Groups) : Len(Results(h)) >= 2 } }

NewOutput(i) ==
    LET items == Combos[i].evaluator_outputs.items IN items[Len(items)]

C11_UnmatchedKeepBaseline ==
    OneExperiment =>
        /\ (pc = "build" \/ (pc = "fold" /\ rounds = 0)) =>
              /\ DOMAIN prompt_ratings = ListedKeys
              /\ \A k \in ListedKeys : prompt_ratings[k] = 1200 * RScale
        /\ pc \in { "fold", "writeback", "done", "aborted" } =>
              \A k \in ListedKeys \ PairKeys :
                  prompt_ratings[k] = 1200 * RScale
        /\ pc = "done" =>
              \A i \in 1 .. Len(Combos) :
                  Combos[i].combo_key \notin PairKeys =>
                      NewOutput(i) = EvaluatorOutput("openai_elo_evaluator",
                                                     1200 * RScale)
        /\ PairsOf(Groups) = << >> =>
              /\ error \in { "", "DispatchError" }
              /\ pc = "done" =>
                    \A i \in 1 .. Len(Combos) :
                        NewOutput(i).result = 1200 * RScale

\* a finished tournament that moved some rating and wrote 1200 for a
\* treatment that played no match
C11_Witness ==
    /\ OneExperiment
    /\ pc = "done"
    /\ rounds > 0
    /\ \E i \in 1 .. Len(Combos) :
          /\ Combos[i].combo_key \notin PairKeys
          /\ NewOutput(i).result = 1200 * RScale
    /\ \E i \in 1 .. Len(Combos) : NewOutput(i).result # 1200 * RScale

\* ------------------------------------------------------------------------
\* C12: the phases are strictly ordered and joined once.  Every request is
\* built before the one call of the dispatcher; no rating moves before the
\* dispatcher has returned its whole list; the updates are applied one at a
\* time, each to the ratings the previous one left; nothing is written back
\* before the last update.
\* ------------------------------------------------------------------------
AllRequests ==
    Flatten([g \in 1 .. Len(Groups) |-> GroupMessages(Groups[g])])

C12_PhasesOrdered ==
    /\ [][(pc = "build" /\ pc' \in { "fold", "aborted" }) =>
             /\ group = Len(Groups)
             /\ responses = << >>]_vars
    /\ []((OneExperiment /\ pc = "build" /\ group = Len(Groups)) =>
             message_batches = AllRequests)
    /\ [][(pc \in { "fold", "writeback", "done", "aborted" }) =>
             /\ responses' = responses
             /\ message_batches' = message_batches]_vars
    /\ [][(prompt_ratings' # prompt_ratings) =>
             \/ pc = "start"
             \/ /\ Updated
                /\ prompt_ratings' =
                      StoreRatings(prompt_ratings, Key1, Key2,
                                   update_elo(prompt_ratings[Key1],
                                              prompt_ratings[Key2], score1'))]_vars
    /\ [][(experiment' # experiment) =>
             /\ pc = "writeback"
             /\ pc' = "done"
             /\ rounds = Len(PairsOf(Groups))
             /\ prompt_ratings' = prompt_ratings]_vars
    /\ []((OneExperiment /\ pc \in { "start", "build" }) =>
             /\ responses = << >>
             /\ rounds = 0
             /\ \A k \in DOMAIN prompt_ratings : prompt_ratings[k] = Baseline)
    /\ []((OneExperiment /\ pc \in { "writeback", "done" }) =>
             /\ group = Len(Groups)
             /\ rounds = Len(PairsOf(Groups)))

\* a finished tournament of three matches, the third between two treatments
\* whose ratings the first two had moved
C12_Witness ==
    /\ OneExperiment
    /\ pc = "done"
    /\ rounds = 3
    /\ experiment # experiment0
    /\ \A k \in DOMAIN prompt_ratings : prompt_ratings[k] # Baseline

\* ------------------------------------------------------------------------
\* C13: the final rating table is a function of the groups, the listing and
\* the verdicts the dispatcher returned.  Every call builds its table anew
\* at 1200, so a call that receives the verdicts an earlier call on the
\* same experiment received ends with the table that call ended with.
\* ------------------------------------------------------------------------
Completed(n) == history[n].pc = "done"

C13_SameVerdictsSameRatings ==
    OneExperiment =>
        /\ pc = "build" =>
              \A k \in DOMAIN prompt_ratings : prompt_ratings[k] = Baseline
        /\ pc \in { "writeback", "done" } =>
              \A n \in 1 .. Len(history) :
                  (Completed(n) /\ history[n].responses = responses) =>
                      prompt_ratings = history[n].prompt_ratings

\* a second call has folded the verdicts the first call folded, and the
\* match moved the ratings
C13_Witness ==
    /\ OneExperiment
    /\ pc = "done"
    /\ Len(history) = 1
    /\ Completed(1)
    /\ history[1].responses = responses
    /\ rounds = 1
    /\ \E k \in DOMAIN prompt_ratings : prompt_ratings[k] # Baseline

\* ------------------------------------------------------------------------
\* C14: when the only pairs of the tournament are those of one group of
\* three listed treatments and the judge answers "A" to every request, the
\* final ratings rank the treatments in the order the group lists them:
\* first above second above third.
\* ------------------------------------------------------------------------
ThreeWay(g) ==
    /\ Len(Results(g)) = 3
    /\ Len(PairsOf(Groups)) = 3
    /\ \A p \in 1 .. 3 : Listed(Results(g)[p])
    /\ \A p, q \in 1 .. 3 :
          p # q => Results(g)[p].combination # Results(g)[q].combination

AlwaysA ==
    /\ Len(responses) >= Len(message_batches)
    /\ \A n \in 1 .. Len(message_batches) : responses[n] = "A"

Final(g, p) == prompt_ratings[Str(Results(g)[p].combination)]

C14_AlwaysARanksByListing ==
    (OneExperiment /\ pc = "done" /\ AlwaysA) =>
        \A g \in 1 .. Len(Groups) :
            ThreeWay(g) => /\ Final(g, 1) > Final(g, 2)
                           /\ Final(g, 2) > Final(g, 3)

\* a three-way tournament judged "A" throughout has been written back
C14_Witness ==
    /\ OneExperiment
    /\ pc = "done"
    /\ AlwaysA
    /\ rounds = 3
    /\ \E g \in 1 .. Len(Groups) :
          /\ ThreeWay(g)
          /\ Final(g, 1) > Baseline
          /\ Final(g, 3) < Baseline

\* ------------------------------------------------------------------------
\* C15: the write-back accumulates.  After k calls on one experiment have
\* completed, every record holds the outputs it held before the first call,
\* in their order, followed by exactly k outputs named
\* "openai_elo_evaluator", the j-th with the rating the j-th completed call
\* ended with; a call that raised adds nothing.
\* ------------------------------------------------------------------------
\* the rating tables of the calls that have completed, in their order
CompletedTables ==
    LET earlier == SelectSeq(history, LAMBDA h : h.pc = "done")
    IN  [n \in 1 .. Len(earlier) |-> earlier[n].prompt_ratings]
        \o (IF pc = "done" THEN << prompt_ratings >> ELSE << >>)

\* the outputs a record held before the first call, None read as empty
OriginalItems(i) ==
    LET first == IF history = << >> THEN experiment0
                 ELSE history[1].experiment0
        old == first[1].combination_aggregated_metrics[i].evaluator_outputs
    IN  IF old.is_none THEN << >> ELSE old.items

C15_WriteBackAccumulates ==
    OneExperiment =>
        \A i \in 1 .. Len(Combos) :
            Combos[i].evaluator_outputs.items =
                OriginalItems(i)
                \o [n \in 1 .. Len(CompletedTables) |->
                       EvaluatorOutput("openai_elo_evaluator",
                                       CompletedTables[n][Combos[i].combo_key])]

\* two calls have completed with different ratings, and a record that held
\* an earlier evaluator's output now holds three outputs
C15_Witness ==
    /\ OneExperiment
    /\ pc = "done"
    /\ Len(CompletedTables) = 2
    /\ CompletedTables[1] # CompletedTables[2]
    /\ \E i \in 1 .. Len(Combos) :
          /\ Len(OriginalItems(i)) = 1
          /\ Len(Combos[i].evaluator_outputs.items) = 3

\* ------------------------------------------------------------------------
\* C16: called with a list that does not hold exactly one experiment (an
\* empty list, or two or more experiments), the evaluator returns normally:
\* it builds no table and no request, does not call the dispatcher, raises
\* nothing and leaves every record of every experiment as it was.
\* ------------------------------------------------------------------------
C16_OtherLengthsReturnUntouched ==
    (Len(experiment) # 1) =>
        /\ pc \in { "start", "done" }
        /\ error = ""
        /\ prompt_ratings = << >>
        /\ message_batches = << >>
        /\ group = 0
        /\ responses = << >>
        /\ rounds = 0
        /\ windex = 0
        /\ experiment = experiment0

\* the call on a list of two experiments has returned
C16_Witness ==
    /\ pc = "done"
    /\ Len(experiment) = 2
    /\ experiment = experiment0
    /\ Len(experiment[1].group_experiment_results) > 0
    /\ message_batches = << >>

\* ------------------------------------------------------------------------
\* C17: a step of the fold for the pair (X, Y) changes the ratings stored
\* under the keys of X and Y and no other rating, and the table has the
\* keys of the listing, neither more nor fewer, from its creation on.
\* ------------------------------------------------------------------------
C17_FoldTouchesOnlyThePair ==
    /\ [][Updated =>
             /\ DOMAIN prompt_ratings' = DOMAIN prompt_ratings
             /\ \A k \in DOMAIN prompt_ratings \ { Key1, Key2 } :
                   prompt_ratings'[k] = prompt_ratings[k]]_vars
    /\ []((OneExperiment /\ pc # "start") =>
             DOMAIN prompt_ratings = ListedKeys)

\* in the middle of the fold: a pair's ratings have moved and a listed
\* treatment outside every pair is where it started
C17_Witness ==
    /\ OneExperiment
    /\ pc = "fold"
    /\ rounds = 1
    /\ Len(PairsOf(Groups)) = 2
    /\ prompt_ratings[Str(PairsOf(Groups)[1][1].combination)] # Baseline
    /\ \E k \in ListedKeys \ PairKeys : prompt_ratings[k] = Baseline

\* ------------------------------------------------------------------------
\* C18: a treatment that is paired (its group holds at least two results)
\* and is missing from the listing is found only by the fold.  Nothing is
\* raised while the requests are built; once the dispatcher has answered for
\* all the requests the run cannot complete: the iteration that reaches the
\* pair raises, no record is modified.  When every paired treatment is
\* listed, no key lookup of the fold fails.
\* ------------------------------------------------------------------------
PairUnlisted(j) ==
    \/ Str(PairsOf(Groups)[j][1].combination) \notin ListedKeys
    \/ Str(PairsOf(Groups)[j][2].combination) \notin ListedKeys

C18_UnlistedKeyFailsInFold ==
    /\ []((OneExperiment /\ ~ (PairKeys \subseteq ListedKeys)) =>
             /\ pc \notin { "writeback", "done" }
             /\ experiment = experiment0
             /\ pc \in { "start", "build" } => error = ""
             /\ pc = "aborted" =>
                   /\ group = Len(Groups)
                   /\ Len(message_batches) = total_rounds
                   /\ \/ error = "DispatchError" /\ responses = << >>
                      \/ error \in { "KeyError", "IndexError" })
    /\ [][(pc = "fold" /\ rounds < Len(PairsOf(Groups))
               /\ PairUnlisted(rounds + 1)) =>
             /\ pc' = "aborted"
             /\ error' \in { "KeyError", "IndexError" }
             /\ prompt_ratings' = prompt_ratings]_vars
    /\ []((OneExperiment /\ error = "KeyError") =>
             /\ pc = "aborted"
             /\ idx = 2 * rounds
             /\ PairUnlisted(rounds))
    /\ []((OneExperiment /\ PairKeys \subseteq ListedKeys) =>
             error # "KeyError")

\* the fold has rated a first pair and raised on the second, which holds a
\* treatment the listing lacks
C18_Witness ==
    /\ OneExperiment
    /\ pc = "aborted"
    /\ error = "KeyError"
    /\ rounds = 2
    /\ PairUnlisted(2)
    /\ \E k \in DOMAIN prompt_ratings : prompt_ratings[k] # Baseline
    /\ experiment = experiment0

====
